---- MODULE Spec2Model ----
(***************************************************************************)
(* A model of the p2p peer directory, its ping/pong discovery handshake    *)
(* (rpc/server.rs, rpc/client.rs), the wire codec (rpc/request.rs) and     *)
(* the chat relay queue (rpc/chat.rs).                                     *)
(***************************************************************************)
EXTENDS Integers, Sequences, FiniteSets, TLC

\* ------------------------------------------------------------------ bounds
\* Largest value of the wall clock (SystemTime::now()).
MaxClock == 1
\* Payloads remote programs have written that the server has not read yet.
MaxInflight == 1
\* Calls of peer_or_insert made in a row on one directory.
MaxCalls == 2
\* Lines typed at the chat prompt, and Message frames remote peers send.
MaxLines == 33
MaxFrames == 1
\* Tallest terminal the chat is run in.
MaxHeight == 4
\* Lines typed into a chat that has peers to write to.
MaxTyped == 2
\* mpsc::channel(32)
QueueCap == 32

\* ------------------------------------------------------------- data types
\* Option<T>: None is the empty sequence, Some(t) is <<t>>.
None == <<>>
Some(t) == <<t>>

\* Identifiers (crypto::Uuid): the server's, the second installation's and a
\* third party's.
Uuid == {"idA", "idB", "idC"}

\* The two installations (a configuration plus a peer-info file each).
Node == {"A", "B"}

\* conf.net.addr / conf.chat.addr / conf.path.peer_info of an installation.
ConfAddr(n) == IF n = "A" THEN "hA" ELSE "hB"
ConfChatAddr(n) == IF n = "A" THEN "cA" ELSE "cB"
ConfPath(n) == IF n = "A" THEN "pathA" ELSE "pathB"
NodeId(n) == IF n = "A" THEN "idA" ELSE "idB"

\* Peer::new: a new record is offline and was never seen.
PeerNew(id, addr, chat_addr) ==
    [id |-> id, addr |-> addr, chat_addr |-> chat_addr,
     status |-> "offline", last_seen |-> None]

\* PeerInfo::new: the directory `init` creates, with no peers.  The peers
\* map is a function from the ids it holds to their records.
PeerInfoNew(n) ==
    [id |-> NodeId(n), addr |-> ConfAddr(n), chat_addr |-> ConfChatAddr(n),
     peers |-> <<>>, path |-> ConfPath(n)]

\* HashMap: whether a peers map has a key.
HasPeer(peers, id) == id \in DOMAIN peers

\* Faulty variant of MapInsert: the map is rebuilt with the one record.
MapInsertOnly(peers, id, rec) == [k \in {id} |-> rec]

\* HashMap: a peers map with the record under the key.
MapInsert(peers, id, rec) ==
    [k \in (DOMAIN peers) \cup {id} |-> IF k = id THEN rec ELSE peers[k]]

\* Faulty variant of peer_or_insert: insert, replacing a record already held.
peer_or_insert_overwrite(peers, id, default_addr, default_chat_addr) ==
    MapInsert(peers, id, PeerNew(id, default_addr, default_chat_addr))

\* PeerInfo::peer_or_insert: self.peers.entry(id).or_insert(Peer::new(..)).
\* The peers map afterwards; the returned reference is to its record for id.
peer_or_insert(peers, id, default_addr, default_chat_addr) ==
    IF HasPeer(peers, id)
    THEN peers
    ELSE MapInsert(peers, id, PeerNew(id, default_addr, default_chat_addr))

\* Faulty variant of MarkOnline: a last_seen that is not the current time.
MarkOnlineStale(peers, id, now) ==
    [peers EXCEPT ![id] = [@ EXCEPT !.status = "online", !.last_seen = Some(0)]]

\* Faulty variant of MarkOnline: the status is set, last_seen is not.
MarkOnlineNoStamp(peers, id, now) ==
    [peers EXCEPT ![id] = [@ EXCEPT !.status = "online"]]

\* peer.status = Status::Online; peer.last_seen = Some(SystemTime::now())
\* through the mutable reference peer_or_insert returned.
MarkOnline(peers, id, now) ==
    [peers EXCEPT ![id] = [@ EXCEPT !.status = "online", !.last_seen = Some(now)]]

\* ------------------------------------------------------------- wire codec
\* The three request variants.
Ping(peer_id, peer_addr, peer_chat_addr) ==
    [variant |-> "Ping", peer_id |-> peer_id, peer_addr |-> peer_addr,
     peer_chat_addr |-> peer_chat_addr]
Pong(peer_id, peer_chat_addr) ==
    [variant |-> "Pong", peer_id |-> peer_id, peer_chat_addr |-> peer_chat_addr]
Message(peer_id, text) ==
    [variant |-> "Message", peer_id |-> peer_id, text |-> text]

\* serde_json::to_vec of a Request: a JSON object with the "method" tag and
\* the variant's fields.
to_vec(req) ==
    CASE req.variant = "Ping" ->
           [method |-> "ping", peer_id |-> req.peer_id,
            peer_addr |-> req.peer_addr, peer_chat_addr |-> req.peer_chat_addr]
      [] req.variant = "Pong" ->
           [method |-> "pong", peer_id |-> req.peer_id,
            peer_chat_addr |-> req.peer_chat_addr]
      [] req.variant = "Message" ->
           [method |-> "message", peer_id |-> req.peer_id, text |-> req.text]

\* io::Result values.
Ok(v) == [ok |-> TRUE, val |-> v]
Err(kind) == [ok |-> FALSE, kind |-> kind]

\* serde_json::from_slice::<Request> of one JSON object: the tag selects the
\* variant, every field of the variant must be present, unknown fields are
\* ignored.
from_slice(obj) ==
    LET has(fs) == fs \subseteq DOMAIN obj IN
    IF ~has({"method"}) THEN Err("InvalidData")
    ELSE CASE obj.method = "ping" /\ has({"peer_id", "peer_addr", "peer_chat_addr"}) ->
                Ok(Ping(obj.peer_id, obj.peer_addr, obj.peer_chat_addr))
           [] obj.method = "pong" /\ has({"peer_id", "peer_chat_addr"}) ->
                Ok(Pong(obj.peer_id, obj.peer_chat_addr))
           [] obj.method = "message" /\ has({"peer_id", "text"}) ->
                Ok(Message(obj.peer_id, obj.text))
           [] OTHER -> Err("InvalidData")

\* The bytes one read() returned, as the sequence of payloads (whole or
\* partial) that landed in the buffer.  read_req decodes the chunk as one
\* JSON document: anything after the first document is a decode error.
DecodeChunk(chunk) ==
    IF Len(chunk) = 1 THEN from_slice(chunk[1]) ELSE Err("InvalidData")

\* A payload cut short by a read that returned only part of it.
Fragment == [truncated |-> TRUE]

RECURSIVE Drop(_, _)
Drop(s, k) == IF k = 0 THEN s ELSE Drop(Tail(s), k - 1)

\* ReadRequest::read_req on a socket whose receive buffer holds `buf` and
\* whose remote end is in state `remote` ("open", or "gone": closed by the
\* peer, so that read() returns 0 bytes, or failed, so that it returns an
\* error).  The set of <<result, buffer left>> a call can return; empty
\* while the read is still pending.  A request never exceeds the 1024-byte
\* capacity the callers pass, so only the chunking varies.
read_req(buf, remote) ==
    IF buf = <<>>
    THEN IF remote = "gone"
         THEN {<<Err("ConnectionAborted"), buf>>, <<Err("Other"), buf>>}
         ELSE {}
    ELSE {<<DecodeChunk(SubSeq(buf, 1, k)), Drop(buf, k)>> : k \in 1..Len(buf)}
         \cup (IF buf[1] = Fragment THEN {}
               ELSE {<<Err("InvalidData"), <<Fragment>> \o Tail(buf)>>})

\* ------------------------------------------------------------------ state
VARIABLES
    file,       \* path -> the persisted directory document
    clock,      \* SystemTime::now()
    srv,        \* the `listen` process: "down" | "up" | "exited"
    peer_info,  \* server: the Arc<Mutex<PeerInfo>> all connections share
    lock,       \* server: the connection whose task holds the mutex, or 0
    remote,     \* connection -> "none" | "open" | "gone" (its far end)
    inq,        \* connection -> payloads written to the server, not yet read
    pc,         \* connection -> position of its `handle` task
    req,        \* connection -> the Ping `handle_ping` is working on
    recvAt,     \* connection -> clock when that Ping was read
    sent,       \* connection -> the Pongs written so far for that Ping
    hs,         \* history: what the handlers did last (see Outcome)
    cl,         \* the `connect` invocation: position, directory, socket
    rx,         \* payloads written to the client's socket, not yet read
    dir,        \* a peers map that peer_or_insert is called on
    calls,      \* the calls made on it: arguments, map before, record returned
    conv,       \* an identifier on its way through Display and TryFrom<String>
    chan,       \* chat: the mpsc channel between the three tasks
    input,      \* chat: the handle_input task: position, lines read, message
    listener,   \* chat: the listen task: position, frames read, message
    pubd,       \* chat history: the messages the channel accepted, in order
    got,        \* chat history: the messages handle_output received, in order
    cremote,    \* chat connection -> "none" | "open" | "gone" (its far end)
    cinq,       \* chat connection -> payloads written to it, not yet read
    peerSent,   \* how many Message frames remote peers have written
    lines,      \* handle_output: the VecDeque of lines, newest first
    height,     \* handle_output: terminal::size().1
    streams,    \* handle_input: the peers it connected to, in iteration order
    out,        \* peer -> its outbound socket: state, payloads written to it
    screen      \* terminal row -> what handle_output has drawn on it

discoveryVars == <<file, clock, srv, peer_info, lock, remote, inq, pc, req,
                   recvAt, sent, hs, cl, rx>>
poiVars == <<dir, calls, conv>>
chatVars == <<chan, input, listener, pubd, got, cremote, cinq, peerSent,
              lines, height, streams, out, screen>>
vars == <<discoveryVars, poiVars, chatVars>>

\* The connections the discovery listener accepts over a run.
Conn == {1, 2}
Path == {ConfPath(n) : n \in Node}
NoReq == [variant |-> "None"]

\* The address a third party answers on, and the server's.
ThirdAddr == "hC"
ServerAddr == ConfAddr("A")

\* Payloads a remote program may write to a discovery connection: a third
\* party's ping from two different addresses, a request that is not a ping
\* and a ping cut short.
EnvPings ==
    {Ping("idC", "hC", "cC"), Ping("idC", "hC2", "cC2")}
EnvGarbage ==
    {to_vec(Pong("idC", "cC")),
     [method |-> "ping", peer_id |-> "idC"]}
EnvFrames == {to_vec(p) : p \in EnvPings} \cup EnvGarbage

\* What a third party may answer to a ping of the client.
EnvReplies ==
    {Ok(Pong("idC", "cC")), Ok(Ping("idC", "hC", "cC")),
     Err("ConnectionAborted"), Err("Other")}

ClientIdle ==
    [pc |-> "idle", node |-> "B", info |-> PeerInfoNew("B"), conn |-> 0,
     addr |-> ThirdAddr]

\* After `init` on both installations (PeerInfo::new, then save); no process
\* is running yet.
InitDiscovery ==
    /\ file = [p \in Path |-> IF p = ConfPath("A") THEN PeerInfoNew("A")
                                                    ELSE PeerInfoNew("B")]
    /\ clock = 0
    /\ srv = "down"
    /\ peer_info = PeerInfoNew("A")
    /\ lock = 0
    /\ remote = [c \in Conn |-> "none"]
    /\ inq = [c \in Conn |-> <<>>]
    /\ pc = [c \in Conn |-> "none"]
    /\ req = [c \in Conn |-> NoReq]
    /\ recvAt = [c \in Conn |-> 0]
    /\ sent = [c \in Conn |-> <<>>]
    /\ hs = [how |-> "none", conn |-> 0]
    /\ cl = ClientIdle
    /\ rx = <<>>

\* No call of peer_or_insert under study.
ConvIdle == [stage |-> "none", id |-> <<>>, text |-> <<>>, res |-> <<>>]
InitNoCalls == dir = <<>> /\ calls = <<>> /\ conv = ConvIdle

\* The connections the chat listener is offered over a run.
ChatConn == {1, 2}

\* `chat` is not running.
InputOff == [pc |-> "off", n |-> 0, msg |-> NoReq, i |-> 0, todo |-> {}]
ListenerOff == [pc |-> "off", msg |-> NoReq, conn |-> 0]
InitNoChat ==
    /\ chan = <<>>
    /\ input = InputOff
    /\ listener = ListenerOff
    /\ pubd = <<>>
    /\ got = <<>>
    /\ cremote = [d \in ChatConn |-> "none"]
    /\ cinq = [d \in ChatConn |-> <<>>]
    /\ peerSent = 0
    /\ lines = <<>>
    /\ height = 0
    /\ streams = <<>>
    /\ out = <<>>
    /\ screen = <<>>

Init == InitDiscovery /\ InitNoCalls /\ InitNoChat

\* ---------------------------------------------------------------- storage
\* PeerInfo::save: on success the whole document replaces the file at the
\* directory's path; on failure the file is as it was.
save(info, files, ok) ==
    IF ok THEN [files EXCEPT ![info.path] = info] ELSE files

\* PeerInfo::load of an existing, well-formed file.
load(files, path) == files[path]

\* ------------------------------------------------------------ environment
\* The next connection the listener accepts takes the lowest unused slot.
FreeSlot(c) == remote[c] = "none" /\ \A d \in Conn : d < c => remote[d] # "none"

RECURSIVE SumLen(_, _)
SumLen(q, S) ==
    IF S = {} THEN 0
    ELSE LET c == CHOOSE x \in S : TRUE IN Len(q[c]) + SumLen(q, S \ {c})

Tick ==
    /\ clock < MaxClock
    /\ clock' = clock + 1
    /\ UNCHANGED <<file, srv, peer_info, lock, remote, inq, pc, req, recvAt,
                   sent, hs, cl, rx>>
    /\ UNCHANGED <<poiVars, chatVars>>

\* A remote program connects to the discovery listener; the accept loop
\* spawns `handle` for the stream.
EnvConnect(c) ==
    /\ srv = "up" /\ FreeSlot(c)
    /\ remote' = [remote EXCEPT ![c] = "open"]
    /\ pc' = [pc EXCEPT ![c] = "read"]
    /\ UNCHANGED <<file, clock, srv, peer_info, lock, inq, req, recvAt, sent,
                   hs, cl, rx>>
    /\ UNCHANGED <<poiVars, chatVars>>

\* It writes a payload to the connection.
EnvSend(c, w) ==
    /\ remote[c] = "open" /\ cl.conn # c
    /\ SumLen(inq, Conn) < MaxInflight
    /\ inq' = [inq EXCEPT ![c] = Append(@, w)]
    /\ UNCHANGED <<file, clock, srv, peer_info, lock, remote, pc, req, recvAt,
                   sent, hs, cl, rx>>
    /\ UNCHANGED <<poiVars, chatVars>>

\* It closes the connection, or the connection fails.
EnvClose(c) ==
    /\ remote[c] = "open" /\ cl.conn # c
    /\ remote' = [remote EXCEPT ![c] = "gone"]
    /\ UNCHANGED <<file, clock, srv, peer_info, lock, inq, pc, req, recvAt,
                   sent, hs, cl, rx>>
    /\ UNCHANGED <<poiVars, chatVars>>

\* ----------------------------------------------------------------- server
\* main.rs listen, then server::listen up to its accept loop: the process
\* loads the directory file and shares a clone of it behind the mutex.
listen ==
    /\ srv = "down"
    /\ srv' = "up"
    /\ peer_info' = load(file, ConfPath("A"))
    /\ UNCHANGED <<file, clock, lock, remote, inq, pc, req, recvAt, sent, hs,
                   cl, rx>>
    /\ UNCHANGED <<poiVars, chatVars>>

\* listener.accept() returns an error: the accept loop ends, `listen`
\* returns and the process exits, taking its tasks and sockets with it.
listen_ends ==
    /\ srv = "up"
    /\ srv' = "exited"
    /\ lock' = 0
    /\ pc' = [c \in Conn |-> IF pc[c] = "none" THEN "none" ELSE "dead"]
    /\ req' = [c \in Conn |-> NoReq]
    /\ recvAt' = [c \in Conn |-> 0]
    /\ sent' = [c \in Conn |-> <<>>]
    /\ remote' = [c \in Conn |-> IF remote[c] = "open" /\ cl.conn # c
                                 THEN "gone" ELSE remote[c]]
    /\ UNCHANGED <<file, clock, peer_info, inq, hs, cl, rx>>
    /\ UNCHANGED <<poiVars, chatVars>>

\* Faulty variant of handle: a request that is not a Ping ends the task.
handle_break(c) ==
    /\ srv = "up" /\ pc[c] = "read"
    /\ \E r \in read_req(inq[c], remote[c]) :
         /\ inq' = [inq EXCEPT ![c] = r[2]]
         /\ IF r[1].ok /\ r[1].val.variant = "Ping"
            THEN /\ pc' = [pc EXCEPT ![c] = "ping"]
                 /\ req' = [req EXCEPT ![c] = r[1].val]
                 /\ recvAt' = [recvAt EXCEPT ![c] = clock]
                 /\ UNCHANGED hs
            ELSE /\ pc' = [pc EXCEPT ![c] = "dead"]
                 /\ UNCHANGED <<hs, req, recvAt>>
    /\ UNCHANGED <<file, clock, srv, peer_info, lock, remote, sent, cl, rx>>
    /\ UNCHANGED <<poiVars, chatVars>>

\* One turn of the loop of `handle`: read a request; anything but a
\* well-formed Ping (an error included) is skipped and the loop reads again.
handle(c) ==
    /\ srv = "up" /\ pc[c] = "read"
    /\ \E r \in read_req(inq[c], remote[c]) :
         /\ inq' = [inq EXCEPT ![c] = r[2]]
         /\ IF r[1].ok /\ r[1].val.variant = "Ping"
            THEN /\ pc' = [pc EXCEPT ![c] = "ping"]
                 /\ req' = [req EXCEPT ![c] = r[1].val]
                 /\ recvAt' = [recvAt EXCEPT ![c] = clock]
                 /\ UNCHANGED hs
            ELSE /\ hs' = IF r[2] # inq[c] THEN [how |-> "skipped", conn |-> c]
                          ELSE hs
                 /\ UNCHANGED <<pc, req, recvAt>>
    /\ UNCHANGED <<file, clock, srv, peer_info, lock, remote, sent, cl, rx>>
    /\ UNCHANGED <<poiVars, chatVars>>

\* The Pong handle_ping writes: the server's own id and chat address.
PongOf(info) == Pong(info.id, info.chat_addr)

\* The history after handle_ping returned on connection c: "failed" when
\* the Pong could not be written; "same" when it completed on a connection
\* that had skipped a payload before.
Outcome(c, how) ==
    IF how = "failed" THEN [how |-> "failed", conn |-> c]
    ELSE IF hs.how \in {"skipped", "same"} /\ hs.conn = c
         THEN [how |-> "same", conn |-> c]
         ELSE hs

\* handle_ping returns: the guard is dropped and `handle` reads again.
Return(c, how) ==
    /\ lock' = 0
    /\ pc' = [pc EXCEPT ![c] = "read"]
    /\ req' = [req EXCEPT ![c] = NoReq]
    /\ recvAt' = [recvAt EXCEPT ![c] = 0]
    /\ sent' = [sent EXCEPT ![c] = <<>>]
    /\ hs' = Outcome(c, how)

\* Faulty variant of handle_ping_pong: the record is inserted although the
\* Pong write failed.
handle_ping_pong_eager(c) ==
    /\ srv = "up" /\ pc[c] = "ping" /\ lock = 0
    /\ \/ /\ lock' = c
          /\ sent' = [sent EXCEPT ![c] = Append(@, to_vec(PongOf(peer_info)))]
          /\ rx' = IF cl.conn = c THEN Append(rx, to_vec(PongOf(peer_info)))
                   ELSE rx
          /\ pc' = [pc EXCEPT ![c] = "update"]
          /\ UNCHANGED <<req, recvAt, hs, peer_info>>
       \/ /\ remote[c] # "open"
          /\ peer_info' = [peer_info EXCEPT !.peers =
                peer_or_insert(@, req[c].peer_id, req[c].peer_addr,
                               req[c].peer_chat_addr)]
          /\ Return(c, "failed")
          /\ UNCHANGED rx
    /\ UNCHANGED <<file, clock, srv, remote, inq, cl>>
    /\ UNCHANGED <<poiVars, chatVars>>

\* Faulty variant of handle_ping_pong: the mutex is not waited for.
handle_ping_pong_nolock(c) ==
    /\ srv = "up" /\ pc[c] = "ping"
    /\ \/ /\ lock' = c
          /\ sent' = [sent EXCEPT ![c] = Append(@, to_vec(PongOf(peer_info)))]
          /\ rx' = IF cl.conn = c THEN Append(rx, to_vec(PongOf(peer_info)))
                   ELSE rx
          /\ pc' = [pc EXCEPT ![c] = "update"]
          /\ UNCHANGED <<req, recvAt, hs>>
       \/ /\ remote[c] # "open"
          /\ Return(c, "failed")
          /\ UNCHANGED rx
    /\ UNCHANGED <<file, clock, srv, peer_info, remote, inq, cl>>
    /\ UNCHANGED <<poiVars, chatVars>>

\* handle_ping, lines 32-36: take the mutex, then write the Pong.  The
\* write can fail once the far end is gone, and then handle_ping returns
\* with the directory untouched.
handle_ping_pong(c) ==
    /\ srv = "up" /\ pc[c] = "ping" /\ lock = 0
    /\ \/ /\ lock' = c
          /\ sent' = [sent EXCEPT ![c] = Append(@, to_vec(PongOf(peer_info)))]
          /\ rx' = IF cl.conn = c THEN Append(rx, to_vec(PongOf(peer_info)))
                   ELSE rx
          /\ pc' = [pc EXCEPT ![c] = "update"]
          /\ UNCHANGED <<req, recvAt, hs>>
       \/ /\ remote[c] # "open"
          /\ Return(c, "failed")
          /\ UNCHANGED rx
    /\ UNCHANGED <<file, clock, srv, peer_info, remote, inq, cl>>
    /\ UNCHANGED <<poiVars, chatVars>>

\* Faulty variant of PingUpdate: only a record already held is updated.
PingUpdateNoInsert(info, ping, now) ==
    [info EXCEPT !.peers =
        IF HasPeer(@, ping.peer_id) THEN MarkOnline(@, ping.peer_id, now) ELSE @]

\* Faulty variant of PingUpdate: the record is replaced by one with the
\* Ping's addresses.
PingUpdateOverwrite(info, ping, now) ==
    [info EXCEPT !.peers =
        MarkOnline(peer_or_insert_overwrite(@, ping.peer_id, ping.peer_addr,
                                            ping.peer_chat_addr),
                   ping.peer_id, now)]

\* handle_ping, lines 38-40: the directory after the insert-or-get and the
\* two assignments through the returned reference.
PingUpdate(info, ping, now) ==
    [info EXCEPT !.peers =
        MarkOnline(peer_or_insert(@, ping.peer_id, ping.peer_addr,
                                  ping.peer_chat_addr),
                   ping.peer_id, now)]

\* handle_ping, lines 38-45: update the record, save (a failure is logged
\* only), return.
handle_ping_update(c) ==
    /\ srv = "up" /\ pc[c] = "update" /\ lock = c
    /\ peer_info' = PingUpdate(peer_info, req[c], clock)
    /\ \E ok \in BOOLEAN : file' = save(peer_info', file, ok)
    /\ Return(c, "ok")
    /\ UNCHANGED <<clock, srv, remote, inq, cl, rx>>
    /\ UNCHANGED <<poiVars, chatVars>>

\* ----------------------------------------------------------------- client
\* client::connect, lines 43-49: the directory after a Pong from the peer
\* dialed at `addr`.
PongUpdate(info, addr, pong, now) ==
    [info EXCEPT !.peers =
        MarkOnline(IF HasPeer(@, pong.peer_id) THEN @
                   ELSE MapInsert(@, pong.peer_id,
                                  PeerNew(pong.peer_id, addr, pong.peer_chat_addr)),
                   pong.peer_id, now)]

\* The client's process ends (return or exit(1)): its socket closes.
Hangup == IF cl.conn = 0 THEN remote ELSE [remote EXCEPT ![cl.conn] = "gone"]

\* main.rs connect, then client::connect lines 16-20: load the directory of
\* installation n and dial.  Dialing the server's address reaches its
\* listener, which accepts and spawns `handle`; any dial can fail.
connect_dial(n, addr) ==
    /\ cl.pc = "idle"
    /\ LET info == load(file, ConfPath(n)) IN
       \/ /\ cl' = [pc |-> "aborted", node |-> n, info |-> info, conn |-> 0,
                    addr |-> addr]
          /\ UNCHANGED <<remote, pc>>
       \/ /\ addr = ServerAddr /\ srv = "up"
          /\ \E c \in Conn :
               /\ FreeSlot(c)
               /\ cl' = [pc |-> "connected", node |-> n, info |-> info,
                         conn |-> c, addr |-> addr]
               /\ remote' = [remote EXCEPT ![c] = "open"]
               /\ pc' = [pc EXCEPT ![c] = "read"]
       \/ /\ addr = ThirdAddr
          /\ cl' = [pc |-> "connected", node |-> n, info |-> info, conn |-> 0,
                    addr |-> addr]
          /\ UNCHANGED <<remote, pc>>
    /\ rx' = <<>>
    /\ UNCHANGED <<file, clock, srv, peer_info, lock, inq, req, recvAt, sent,
                   hs>>
    /\ UNCHANGED <<poiVars, chatVars>>

\* client::connect, lines 22-26: send the Ping with the local id and
\* addresses; a failed write ends the invocation.
connect_ping ==
    /\ cl.pc = "connected"
    /\ \/ /\ cl' = [cl EXCEPT !.pc = "sent"]
          /\ IF cl.conn = 0 \/ pc[cl.conn] = "dead" THEN UNCHANGED inq
             ELSE inq' = [inq EXCEPT ![cl.conn] =
                        Append(@, to_vec(Ping(cl.info.id, cl.info.addr,
                                              cl.info.chat_addr)))]
          /\ UNCHANGED remote
       \/ /\ cl' = [cl EXCEPT !.pc = "aborted"]
          /\ remote' = Hangup
          /\ UNCHANGED inq
    /\ UNCHANGED <<file, clock, srv, peer_info, lock, pc, req, recvAt, sent,
                   hs, rx>>
    /\ UNCHANGED <<poiVars, chatVars>>

\* What the client's read_req can return: from the server's socket, or
\* whatever a third party answers.
ClientReads ==
    IF cl.conn = 0 THEN {<<r, <<>>>> : r \in EnvReplies}
    ELSE read_req(rx, IF pc[cl.conn] = "dead" THEN "gone" ELSE "open")

\* Faulty variant of connect_reply: any well-formed reply is taken for the
\* Pong.
connect_reply_lenient ==
    /\ cl.pc = "sent"
    /\ \E r \in ClientReads :
         IF r[1].ok
         THEN LET info == PongUpdate(cl.info, cl.addr, r[1].val, clock) IN
              \E ok \in BOOLEAN :
                 /\ file' = save(info, file, ok)
                 /\ cl' = [cl EXCEPT !.pc = IF r[1].val.variant # "Pong"
                                            THEN "aborted"
                                            ELSE IF ok THEN "done" ELSE "exit",
                                     !.info = info]
         ELSE /\ cl' = [cl EXCEPT !.pc = "aborted"]
              /\ UNCHANGED file
    /\ rx' = <<>>
    /\ remote' = Hangup
    /\ UNCHANGED <<clock, srv, peer_info, lock, inq, pc, req, recvAt, sent, hs>>
    /\ UNCHANGED <<poiVars, chatVars>>

\* client::connect, lines 27-57: read one reply.  A Pong updates the
\* directory, which is then saved; everything else is exit(1): "aborted"
\* when no Pong was read (lines 29-40), "exit" when the save failed.
connect_reply ==
    /\ cl.pc = "sent"
    /\ \E r \in ClientReads :
         IF r[1].ok /\ r[1].val.variant = "Pong"
         THEN LET info == PongUpdate(cl.info, cl.addr, r[1].val, clock) IN
              \E ok \in BOOLEAN :
                 /\ file' = save(info, file, ok)
                 /\ cl' = [cl EXCEPT !.pc = IF ok THEN "done" ELSE "exit",
                                     !.info = info]
         ELSE /\ cl' = [cl EXCEPT !.pc = "aborted"]
              /\ UNCHANGED file
    /\ rx' = <<>>
    /\ remote' = Hangup
    /\ UNCHANGED <<clock, srv, peer_info, lock, inq, pc, req, recvAt, sent, hs>>
    /\ UNCHANGED <<poiVars, chatVars>>

\* The user interrupts the command: the process ends where it is.
connect_killed ==
    /\ cl.pc \in {"connected", "sent"}
    /\ cl' = [cl EXCEPT !.pc = "exit"]
    /\ remote' = Hangup
    /\ rx' = <<>>
    /\ UNCHANGED <<file, clock, srv, peer_info, lock, inq, pc, req, recvAt,
                   sent, hs>>
    /\ UNCHANGED <<poiVars, chatVars>>

\* The command is run again: a new process.
connect_again ==
    /\ cl.pc \in {"done", "exit", "aborted"}
    /\ cl' = ClientIdle
    /\ UNCHANGED <<file, clock, srv, peer_info, lock, remote, inq, pc, req,
                   recvAt, sent, hs, rx>>
    /\ UNCHANGED <<poiVars, chatVars>>

\* ----------------------------------------------------------- specification
\* The discovery server against remote programs that write what they like.
Next ==
    \/ Tick
    \/ \E c \in Conn : EnvConnect(c)
    \/ \E c \in Conn, w \in EnvFrames : EnvSend(c, w)
    \/ \E c \in Conn : EnvClose(c)
    \/ listen
    \/ listen_ends
    \/ \E c \in Conn : handle(c)
    \/ \E c \in Conn : handle_ping_pong(c)
    \/ \E c \in Conn : handle_ping_update(c)

Spec == Init /\ [][Next]_vars

\* The two installations: the server of A, and `connect` run from either
\* against the server or against a third party, any number of times.
NextNet ==
    \/ Tick
    \/ listen
    \/ listen_ends
    \/ \E c \in Conn : handle(c)
    \/ \E c \in Conn : handle_ping_pong(c)
    \/ \E c \in Conn : handle_ping_update(c)
    \/ \E n \in Node, addr \in {ServerAddr, ThirdAddr} : connect_dial(n, addr)
    \/ connect_ping
    \/ connect_reply
    \/ connect_killed
    \/ connect_again

SpecNet == Init /\ [][NextNet]_vars

\* Scenario 1: the server of A, and `connect` run once from B against it;
\* either process may still end early.
NextE2E ==
    \/ Tick
    \/ listen
    \/ listen_ends
    \/ connect_killed
    \/ \E c \in Conn : handle(c)
    \/ \E c \in Conn : handle_ping_pong(c)
    \/ \E c \in Conn : handle_ping_update(c)
    \/ connect_dial("B", ServerAddr)
    \/ connect_ping
    \/ connect_reply

SpecE2E == Init /\ [][NextE2E]_vars

\* Several peers ping the server at once: the second installation and a
\* third party, each over a connection of its own.
ConcurrentPings ==
    {Ping("idB", "hB", "cB"), Ping("idC", "hC", "cC")}
ConcurrentFrames == {to_vec(p) : p \in ConcurrentPings}

NextLock ==
    \/ \E c \in Conn : EnvConnect(c)
    \/ \E c \in Conn, w \in ConcurrentFrames : EnvSend(c, w)
    \/ \E c \in Conn : EnvClose(c)
    \/ listen
    \/ \E c \in Conn : handle(c)
    \/ \E c \in Conn : handle_ping_pong(c)
    \/ \E c \in Conn : handle_ping_update(c)

SpecLock == Init /\ [][NextLock]_vars

\* tokio runs every spawned handler task that can take a step.
SpecLockFair ==
    /\ SpecLock
    /\ \A c \in Conn :
          /\ WF_vars(handle(c))
          /\ WF_vars(handle_ping_pong(c))
          /\ WF_vars(handle_ping_update(c))

\* --------------------------------------------------------- peer_or_insert
\* Directories a run of handshakes leaves behind: every record online.
Seen(id, addr, chat_addr) ==
    [PeerNew(id, addr, chat_addr) EXCEPT !.status = "online",
                                         !.last_seen = Some(1)]
CallDirs ==
    {<<>>,
     MapInsert(<<>>, "idA", Seen("idA", "h1", "c1")),
     MapInsert(MapInsert(<<>>, "idA", Seen("idA", "h2", "c2")),
               "idB", Seen("idB", "h1", "c1"))}
CallAddrs == {"h1", "h2"}
CallChatAddrs == {"c1", "c2"}

InitCalls ==
    /\ InitDiscovery
    /\ dir \in CallDirs /\ calls = <<>> /\ conv = ConvIdle
    /\ InitNoChat

\* One call of PeerInfo::peer_or_insert; what it returned is the record the
\* returned reference points at.
call_peer_or_insert(id, default_addr, default_chat_addr) ==
    /\ Len(calls) < MaxCalls
    /\ dir' = peer_or_insert(dir, id, default_addr, default_chat_addr)
    /\ calls' = Append(calls, [id |-> id, default_addr |-> default_addr,
                               default_chat_addr |-> default_chat_addr,
                               before |-> dir, ret |-> dir'[id]])
    /\ UNCHANGED <<conv, discoveryVars, chatVars>>

NextCalls ==
    \E id \in Uuid, a \in CallAddrs, c \in CallChatAddrs :
        call_peer_or_insert(id, a, c)

SpecCalls == InitCalls /\ [][NextCalls]_vars

\* ---- crypto/uuid.rs: the text form of an identifier --------------------
\* A character is a one-letter string, a text a sequence of characters, an
\* identifier its sixteen bytes.  An unsigned integer is kept as its
\* hexadecimal digits, most significant first, whatever its width.
HexDigits ==
    <<"0", "1", "2", "3", "4", "5", "6", "7",
      "8", "9", "a", "b", "c", "d", "e", "f">>
UpperDigits == <<"A", "B", "C", "D", "E", "F">>

\* char::to_digit(16): the value of a digit in either case, -1 for none.
to_digit(ch) ==
    IF \E v \in 1..16 : HexDigits[v] = ch
    THEN (CHOOSE v \in 1..16 : HexDigits[v] = ch) - 1
    ELSE IF \E v \in 1..6 : UpperDigits[v] = ch
         THEN (CHOOSE v \in 1..6 : UpperDigits[v] = ch) + 9
         ELSE -1

\* uN::from_le_bytes: the last byte is the most significant.
RECURSIVE from_le_bytes(_)
from_le_bytes(bytes) ==
    IF bytes = <<>> THEN <<>>
    ELSE from_le_bytes(Tail(bytes)) \o <<Head(bytes) \div 16, Head(bytes) % 16>>

\* uN::to_le_bytes of a number that fits n bytes.
RECURSIVE to_le_bytes(_, _)
to_le_bytes(num, n) ==
    IF n = 0 THEN <<>>
    ELSE LET lo == IF num = <<>> THEN 0 ELSE num[Len(num)]
             hi == IF Len(num) < 2 THEN 0 ELSE num[Len(num) - 1]
             rest == IF Len(num) < 2 THEN <<>> ELSE SubSeq(num, 1, Len(num) - 2)
         IN  <<16 * hi + lo>> \o to_le_bytes(rest, n - 1)

\* A number without its leading zeros.
RECURSIVE Significant(_)
Significant(num) ==
    IF num # <<>> /\ Head(num) = 0 THEN Significant(Tail(num)) ELSE num

RECURSIVE ZeroPad(_, _)
ZeroPad(text, width) ==
    IF Len(text) >= width THEN text ELSE ZeroPad(<<"0">> \o text, width)

\* format!("{:0width$x}"): lowercase digits, zeros in front up to width.
LowerHex(num, width) ==
    LET sig == Significant(num)
        digits == IF sig = <<>> THEN <<"0">>
                  ELSE [i \in 1..Len(sig) |-> HexDigits[sig[i] + 1]]
    IN  ZeroPad(digits, width)

\* UuidV4::new: sixteen random bytes with the version and variant bits set.
UuidV4New(rng) ==
    [rng EXCEPT ![7] = (@ % 16) + 64, ![9] = (@ % 64) + 128]

\* Display for UuidV4.
Display(b) ==
    LowerHex(from_le_bytes(SubSeq(b, 1, 4)), 8) \o <<"-">>
    \o LowerHex(from_le_bytes(SubSeq(b, 5, 6)), 4) \o <<"-">>
    \o LowerHex(from_le_bytes(SubSeq(b, 7, 8)), 4) \o <<"-">>
    \o LowerHex(from_le_bytes(SubSeq(b, 9, 10)), 4) \o <<"-">>
    \o LowerHex(from_le_bytes(SubSeq(b, 11, 16) \o <<0, 0>>), 12)

\* str::split('-'): the pieces between the hyphens, empty ones included.
RECURSIVE Split(_, _)
Split(text, piece) ==
    IF text = <<>> THEN <<piece>>
    ELSE IF Head(text) = "-" THEN <<piece>> \o Split(Tail(text), <<>>)
    ELSE Split(Tail(text), Append(piece, Head(text)))

\* uN::from_str_radix(segment, 16) for a type of n bytes: an optional plus
\* sign, then at least one digit, nothing else; a value beyond the type is
\* an error too.
from_str_radix(segment, n) ==
    LET digits == IF segment # <<>> /\ Head(segment) = "+"
                  THEN Tail(segment) ELSE segment
        num == [i \in 1..Len(digits) |-> to_digit(digits[i])]
    IN  IF digits = <<>> THEN Err("ParseError")
        ELSE IF \E i \in 1..Len(num) : num[i] = -1 THEN Err("ParseError")
        ELSE IF Len(Significant(num)) > 2 * n THEN Err("ParseError")
        ELSE Ok(Significant(num))

\* TryFrom<String> for UuidV4.
try_from(text) ==
    LET segments == Split(text, <<>>)
        Width == <<4, 2, 2, 2, 8>>
        n(k) == from_str_radix(segments[k], Width[k])
    IN  IF Len(segments) # 5 THEN Err("ParseError")
        ELSE IF \E k \in 1..5 : ~n(k).ok THEN Err("ParseError")
        ELSE Ok(to_le_bytes(n(1).val, 4) \o to_le_bytes(n(2).val, 2)
                \o to_le_bytes(n(3).val, 2) \o to_le_bytes(n(4).val, 2)
                \o SubSeq(to_le_bytes(n(5).val, 8), 1, 6))

\* The random bytes drawn: every byte of one group from one seed, each byte
\* different from its neighbours.
GroupOf ==
    <<1, 1, 1, 1, 2, 2, 3, 3, 4, 4, 5, 5, 5, 5, 5, 5>>
RngSeeds == {0, 100, 239}
RngSamples ==
    {[i \in 1..16 |-> seed[GroupOf[i]] + i] : seed \in [1..5 -> RngSeeds]}

\* The texts handed to the parser: four to six groups out of a few.
TypedGroups ==
    {<<>>, <<"f", "F">>, <<"+", "1">>, <<"1", "g">>,
     <<"1", "0", "0", "0", "0">>}
RECURSIVE Join(_)
Join(groups) ==
    IF Len(groups) = 1 THEN groups[1]
    ELSE groups[1] \o <<"-">> \o Join(Tail(groups))
TypedTexts ==
    {Join(groups) : groups \in UNION {[1..k -> TypedGroups] : k \in {4, 5, 6}}}

InitConv ==
    /\ InitDiscovery
    /\ dir = <<>> /\ calls = <<>> /\ conv = ConvIdle
    /\ InitNoChat

\* An identifier is generated.
uuid_new(rng) ==
    /\ conv.stage = "none"
    /\ conv' = [conv EXCEPT !.stage = "id", !.id = UuidV4New(rng)]
    /\ UNCHANGED <<dir, calls, discoveryVars, chatVars>>

\* It is written out (to_string, serialize).
uuid_fmt ==
    /\ conv.stage = "id"
    /\ conv' = [conv EXCEPT !.stage = "text", !.text = Display(conv.id)]
    /\ UNCHANGED <<dir, calls, discoveryVars, chatVars>>

\* A text arrives from outside (a payload's peer_id, a directory file).
uuid_typed(text) ==
    /\ conv.stage = "none"
    /\ conv' = [conv EXCEPT !.stage = "typed", !.text = text]
    /\ UNCHANGED <<dir, calls, discoveryVars, chatVars>>

\* The text is parsed (deserialize).
uuid_try_from ==
    /\ conv.stage \in {"text", "typed"}
    /\ conv' = [conv EXCEPT !.stage = IF conv.stage = "text" THEN "back"
                                      ELSE "parsed",
                            !.res = try_from(conv.text)]
    /\ UNCHANGED <<dir, calls, discoveryVars, chatVars>>

NextConv ==
    \/ \E rng \in RngSamples : uuid_new(rng)
    \/ uuid_fmt
    \/ \E text \in TypedTexts : uuid_typed(text)
    \/ uuid_try_from

SpecConv == InitConv /\ [][NextConv]_vars

\* Faulty variant of HasCapacity: a channel without a bound.
HasCapacityUnbounded(q) == TRUE

\* ------------------------------------------------------------------- chat
\* tokio::sync::mpsc, bounded: Sender::send completes once the channel has a
\* free slot and appends; Receiver::recv takes the oldest message.
HasCapacity(q) == Len(q) < QueueCap
Send(q, msg) == Append(q, msg)
Recv(q) == <<Head(q), Tail(q)>>

\* What a peer may write to a chat connection besides a Message: a request
\* of another variant, a Message cut short.
ChatGarbage ==
    {to_vec(Pong("idC", "cC")), [method |-> "message", peer_id |-> "idC"]}

\* A line of standard input is a sequence of characters, 0 standing for
\* white space (the newline included); str::trim drops white space at both
\* ends.
RECURSIVE TrimStart(_)
TrimStart(line) ==
    IF line # <<>> /\ Head(line) = 0 THEN TrimStart(Tail(line)) ELSE line
RECURSIVE TrimEnd(_)
TrimEnd(line) ==
    IF line # <<>> /\ line[Len(line)] = 0
    THEN TrimEnd(SubSeq(line, 1, Len(line) - 1))
    ELSE line
trim(line) == TrimEnd(TrimStart(line))

\* The line read_line returns for the k-th line of text typed.
TextLine(k) == <<k, 0>>

\* format!("{}: {}", msg.peer_id, msg.text)
FormatLine(msg) == <<msg.peer_id, msg.text>>

\* The terminal: what a row shows.  Rows count from 1 at the top.
Blank == [kind |-> "blank", line |-> <<>>]
Title == [kind |-> "title", line |-> <<>>]
Prompt == [kind |-> "prompt", line |-> <<>>]
LineCell(line) == [kind |-> "line", line |-> line]

\* ESC[2J: the screen of h rows cleared.
Clear(h) == [row \in 1..h |-> Blank]

\* ESC[row;colH followed by text: the text is on that row.
Draw(scr, row, cell) ==
    IF row \in DOMAIN scr THEN [scr EXCEPT ![row] = cell] ELSE scr

\* handle_output, line 64: the row of the history line of index i, 0 being
\* the most recent.
LineRow(i, max_height) == max_height - i - 1

\* handle_output, lines 63-66: the history lines drawn from index i on.
RECURSIVE DrawLines(_, _, _, _)
DrawLines(scr, history, i, max_height) ==
    IF i >= Len(history) THEN scr
    ELSE DrawLines(Draw(scr, LineRow(i, max_height), LineCell(history[i + 1])),
                   history, i + 1, max_height)

\* handle_output, lines 52-53: the title on the first row, the prompt on the
\* last.
DrawFrame(scr, max_height) == Draw(Draw(scr, 1, Title), max_height, Prompt)

\* chat::start after main.rs chat has loaded the directory: the channel, the
\* two spawned tasks and the listener's bind (a failed bind is exit(1)), in a
\* terminal of h rows.
start(h) ==
    /\ input.pc = "off" /\ listener.pc = "off"
    /\ \/ /\ input' = [input EXCEPT !.pc = "connect",
                          !.todo = DOMAIN load(file, ConfPath("A")).peers]
          /\ listener' = [listener EXCEPT !.pc = "accept"]
          /\ height' = h
          /\ screen' = DrawFrame(Clear(h), h)
       \/ /\ input' = [input EXCEPT !.pc = "exit"]
          /\ listener' = [listener EXCEPT !.pc = "exit"]
          /\ UNCHANGED <<height, screen>>
    /\ UNCHANGED <<chan, pubd, got, cremote, cinq, peerSent, lines, streams, out>>
    /\ UNCHANGED <<discoveryVars, poiVars>>

\* handle_input, lines 22-26: connect to the chat address of each peer of the
\* directory; a peer that cannot be reached is skipped.  The map of streams
\* is iterated in some order of its own.
handle_input_connect ==
    /\ input.pc = "connect"
    /\ \E order \in UNION {[1..k -> input.todo] : k \in 0..Cardinality(input.todo)} :
         /\ \A a, b \in DOMAIN order : a # b => order[a] # order[b]
         /\ streams' = order
         /\ out' = [id \in {order[a] : a \in DOMAIN order} |->
                       [state |-> "open", wrote |-> <<>>]]
    /\ input' = [input EXCEPT !.pc = "read", !.todo = {}]
    /\ UNCHANGED <<chan, listener, pubd, got, cremote, cinq, peerSent, lines,
                   height>>
    /\ UNCHANGED <<screen, discoveryVars, poiVars>>

\* handle_input, lines 31-32: read a line (at the end of input read_line
\* returns no character) and build the Message of its trimmed text.
handle_input_read(line) ==
    /\ input.pc = "read" /\ input.n < MaxLines
    /\ input' = [input EXCEPT !.pc = "send", !.n = input.n + 1,
                              !.msg = Message(NodeId("A"), trim(line))]
    /\ UNCHANGED <<chan, listener, pubd, got, cremote, cinq, peerSent, lines,
                   height, streams, out>>
    /\ UNCHANGED <<screen, discoveryVars, poiVars>>

\* handle_input, line 33: publish the Message; then on to the peer sockets,
\* or to the next line (line 38) when there is none.
handle_input_send ==
    /\ input.pc = "send" /\ HasCapacity(chan)
    /\ chan' = Send(chan, input.msg)
    /\ pubd' = Append(pubd, input.msg)
    /\ input' = IF streams = <<>>
                THEN [input EXCEPT !.pc = "read", !.msg = NoReq]
                ELSE [input EXCEPT !.pc = "fanout", !.i = 1]
    /\ UNCHANGED <<listener, got, cremote, cinq, peerSent, lines, height,
                   streams, out>>
    /\ UNCHANGED <<screen, discoveryVars, poiVars>>

\* Faulty variant of handle_input_write: a failed write ends the round.
handle_input_write_abort ==
    /\ input.pc = "fanout"
    /\ LET id == streams[input.i] IN
       /\ out[id].state # "stalled"
       /\ out' = IF out[id].state = "open"
                 THEN [out EXCEPT ![id].wrote = Append(@, to_vec(input.msg))]
                 ELSE out
       /\ input' = IF input.i = Len(streams) \/ out[id].state = "broken"
                   THEN [input EXCEPT !.pc = "read", !.msg = NoReq, !.i = 0]
                   ELSE [input EXCEPT !.i = input.i + 1]
    /\ UNCHANGED <<chan, listener, pubd, got, cremote, cinq, peerSent, lines,
                   height, streams>>
    /\ UNCHANGED <<screen, discoveryVars, poiVars>>

\* Faulty variant of handle_input_write: a socket that does not take the
\* write is passed over.
handle_input_write_skip ==
    /\ input.pc = "fanout"
    /\ LET id == streams[input.i] IN
       /\ out' = IF out[id].state = "open"
                 THEN [out EXCEPT ![id].wrote = Append(@, to_vec(input.msg))]
                 ELSE out
    /\ input' = IF input.i = Len(streams)
                THEN [input EXCEPT !.pc = "read", !.msg = NoReq, !.i = 0]
                ELSE [input EXCEPT !.i = input.i + 1]
    /\ UNCHANGED <<chan, listener, pubd, got, cremote, cinq, peerSent, lines,
                   height, streams>>
    /\ UNCHANGED <<screen, discoveryVars, poiVars>>

\* handle_input, lines 35-38: write the Message to the next peer socket, the
\* result dropped; after the last one clear the line.
handle_input_write ==
    /\ input.pc = "fanout"
    /\ LET id == streams[input.i] IN
       /\ out[id].state # "stalled"
       /\ out' = IF out[id].state = "open"
                 THEN [out EXCEPT ![id].wrote = Append(@, to_vec(input.msg))]
                 ELSE out
    /\ input' = IF input.i = Len(streams)
                THEN [input EXCEPT !.pc = "read", !.msg = NoReq, !.i = 0]
                ELSE [input EXCEPT !.i = input.i + 1]
    /\ UNCHANGED <<chan, listener, pubd, got, cremote, cinq, peerSent, lines,
                   height, streams>>
    /\ UNCHANGED <<screen, discoveryVars, poiVars>>

\* The peer behind an outbound socket goes away: writes to it fail from now.
PeerBreaks(id) ==
    /\ id \in DOMAIN out /\ out[id].state = "open"
    /\ out' = [out EXCEPT ![id].state = "broken"]
    /\ UNCHANGED <<chan, input, listener, pubd, got, cremote, cinq, peerSent,
                   lines, height, streams>>
    /\ UNCHANGED <<screen, discoveryVars, poiVars>>

\* The peer behind an outbound socket stops reading and the socket's buffers
\* are full: a write to it does not complete.
PeerStalls(id) ==
    /\ id \in DOMAIN out /\ out[id].state = "open"
    /\ out' = [out EXCEPT ![id].state = "stalled"]
    /\ UNCHANGED <<chan, input, listener, pubd, got, cremote, cinq, peerSent,
                   lines, height, streams>>
    /\ UNCHANGED <<screen, discoveryVars, poiVars>>

\* It reads again.
PeerDrains(id) ==
    /\ id \in DOMAIN out /\ out[id].state = "stalled"
    /\ out' = [out EXCEPT ![id].state = "open"]
    /\ UNCHANGED <<chan, input, listener, pubd, got, cremote, cinq, peerSent,
                   lines, height, streams>>
    /\ UNCHANGED <<screen, discoveryVars, poiVars>>

\* A remote peer connects to the chat address; connections are accepted in
\* the order they were made.
ChatConnect(d) ==
    /\ listener.pc \notin {"off", "exit"}
    /\ cremote[d] = "none" /\ \A e \in ChatConn : e < d => cremote[e] # "none"
    /\ cremote' = [cremote EXCEPT ![d] = "open"]
    /\ UNCHANGED <<chan, input, listener, pubd, got, cinq, peerSent, lines,
                   height, streams, out>>
    /\ UNCHANGED <<screen, discoveryVars, poiVars>>

\* It writes its next Message to the connection.
ChatSendMessage(d) ==
    /\ cremote[d] = "open" /\ peerSent < MaxFrames
    /\ SumLen(cinq, ChatConn) < MaxInflight
    /\ cinq' = [cinq EXCEPT ![d] = Append(@, to_vec(Message("idC", <<peerSent + 1>>)))]
    /\ peerSent' = peerSent + 1
    /\ UNCHANGED <<chan, input, listener, pubd, got, cremote, lines, height,
                   streams, out>>
    /\ UNCHANGED <<screen, discoveryVars, poiVars>>

\* It writes something that is no Message.
ChatSendGarbage(d, w) ==
    /\ cremote[d] = "open"
    /\ SumLen(cinq, ChatConn) < MaxInflight
    /\ cinq' = [cinq EXCEPT ![d] = Append(@, w)]
    /\ UNCHANGED <<chan, input, listener, pubd, got, cremote, peerSent, lines,
                   height, streams, out>>
    /\ UNCHANGED <<screen, discoveryVars, poiVars>>

\* It closes the connection, or the connection fails.
ChatClose(d) ==
    /\ cremote[d] = "open"
    /\ cremote' = [cremote EXCEPT ![d] = "gone"]
    /\ UNCHANGED <<chan, input, listener, pubd, got, cinq, peerSent, lines,
                   height, streams, out>>
    /\ UNCHANGED <<screen, discoveryVars, poiVars>>

\* chat::listen, line 75: accept the next connection.
listen_accept ==
    /\ listener.pc = "accept"
    /\ listener.conn + 1 \in ChatConn
    /\ cremote[listener.conn + 1] # "none"
    /\ listener' = [listener EXCEPT !.pc = "read", !.conn = listener.conn + 1]
    /\ UNCHANGED <<chan, input, pubd, got, cremote, cinq, peerSent, lines,
                   height, streams, out>>
    /\ UNCHANGED <<screen, discoveryVars, poiVars>>

\* Faulty variant of listen_read: a read that gives no Message ends the
\* listener.
listen_read_fatal ==
    /\ listener.pc = "read"
    /\ \E r \in read_req(cinq[listener.conn], cremote[listener.conn]) :
         /\ cinq' = [cinq EXCEPT ![listener.conn] = r[2]]
         /\ listener' = IF r[1].ok /\ r[1].val.variant = "Message"
                        THEN [listener EXCEPT !.pc = "send", !.msg = r[1].val]
                        ELSE [listener EXCEPT !.pc = "exit"]
    /\ UNCHANGED <<chan, input, pubd, got, cremote, peerSent, lines, height,
                   streams, out>>
    /\ UNCHANGED <<screen, discoveryVars, poiVars>>

\* chat::listen, line 77: read a request from the connection; anything but
\* a Message (an error included) ends the inner loop.
listen_read ==
    /\ listener.pc = "read"
    /\ \E r \in read_req(cinq[listener.conn], cremote[listener.conn]) :
         /\ cinq' = [cinq EXCEPT ![listener.conn] = r[2]]
         /\ listener' = IF r[1].ok /\ r[1].val.variant = "Message"
                        THEN [listener EXCEPT !.pc = "send", !.msg = r[1].val]
                        ELSE [listener EXCEPT !.pc = "accept"]
    /\ UNCHANGED <<chan, input, pubd, got, cremote, peerSent, lines, height,
                   streams, out>>
    /\ UNCHANGED <<screen, discoveryVars, poiVars>>

\* chat::listen, line 78: forward the Message.
listen_send ==
    /\ listener.pc = "send" /\ HasCapacity(chan)
    /\ chan' = Send(chan, listener.msg)
    /\ pubd' = Append(pubd, listener.msg)
    /\ listener' = [listener EXCEPT !.pc = "read", !.msg = NoReq]
    /\ UNCHANGED <<input, got, cremote, cinq, peerSent, lines, height, streams,
                   out>>
    /\ UNCHANGED <<screen, discoveryVars, poiVars>>

\* Faulty variant of PushLine: the line beyond cap that goes is the newest.
PushLineDropNewest(q, line, cap) ==
    LET pushed == <<line>> \o q IN
    IF Len(pushed) > cap THEN Tail(pushed) ELSE pushed

\* VecDeque::push_front, then pop_back when longer than cap.
PushLine(q, line, cap) ==
    LET pushed == <<line>> \o q IN
    IF Len(pushed) > cap THEN SubSeq(pushed, 1, Len(pushed) - 1) ELSE pushed

\* handle_output, lines 56-66 and 52-54: receive the next Message, put its
\* line first and drop the oldest line beyond max_height - 2; clear the
\* screen, draw the lines, then the title and the prompt.
handle_output_recv ==
    /\ input.pc # "off" /\ input.pc # "exit"
    /\ chan # <<>>
    /\ got' = Append(got, Recv(chan)[1])
    /\ chan' = Recv(chan)[2]
    /\ lines' = PushLine(lines, FormatLine(Recv(chan)[1]), height - 2)
    /\ screen' = DrawFrame(DrawLines(Clear(height), lines', 0, height), height)
    /\ UNCHANGED <<input, listener, pubd, cremote, cinq, peerSent, height,
                   streams, out>>
    /\ UNCHANGED <<discoveryVars, poiVars>>

\* The relay queue under load: lines typed one after the other, and one
\* remote peer.
NextChat ==
    \/ start(MaxHeight)
    \/ handle_input_connect
    \/ handle_input_read(TextLine(input.n + 1))
    \/ handle_input_send
    \/ ChatConnect(1)
    \/ ChatSendMessage(1)
    \/ listen_accept
    \/ listen_read
    \/ listen_send
    \/ handle_output_recv

SpecChat == Init /\ [][NextChat]_vars

\* The terminals of at least two rows.
Heights == 2..MaxHeight

\* The renderer in terminals of every height, fed by the keyboard and by one
\* remote peer.
NextRender ==
    \/ \E h \in Heights : start(h)
    \/ handle_input_connect
    \/ handle_input_read(TextLine(input.n + 1))
    \/ handle_input_send
    \/ ChatConnect(1)
    \/ ChatSendMessage(1)
    \/ listen_accept
    \/ listen_read
    \/ listen_send
    \/ handle_output_recv

SpecRender == Init /\ [][NextRender]_vars

\* The directory of A after B and C have each completed a handshake.
KnownPeers ==
    MarkOnline(
        peer_or_insert(
            MarkOnline(peer_or_insert(<<>>, "idB", "hB", "cB"), "idB", 0),
            "idC", "hC", "cC"),
        "idC", 0)

\* `chat` is about to run on an installation that knows two peers.
InitFanout ==
    /\ file = [p \in Path |->
                 IF p = ConfPath("A")
                 THEN [PeerInfoNew("A") EXCEPT !.peers = KnownPeers]
                 ELSE PeerInfoNew("B")]
    /\ clock = 0
    /\ srv = "down"
    /\ peer_info = PeerInfoNew("A")
    /\ lock = 0
    /\ remote = [c \in Conn |-> "none"]
    /\ inq = [c \in Conn |-> <<>>]
    /\ pc = [c \in Conn |-> "none"]
    /\ req = [c \in Conn |-> NoReq]
    /\ recvAt = [c \in Conn |-> 0]
    /\ sent = [c \in Conn |-> <<>>]
    /\ hs = [how |-> "none", conn |-> 0]
    /\ cl = ClientIdle
    /\ rx = <<>>
    /\ InitNoCalls
    /\ InitNoChat

\* What read_line may return next: a line of text, a blank line, or nothing
\* at the end of input.
TypedLines == {TextLine(input.n + 1), <<0>>, <<>>}

\* The input task with peers to write to: a few lines typed, sockets that
\* break at any time.
NextFanout ==
    \/ start(MaxHeight)
    \/ handle_input_connect
    \/ \E line \in TypedLines : input.n < MaxTyped /\ handle_input_read(line)
    \/ handle_input_send
    \/ handle_input_write
    \/ \E id \in Uuid : PeerBreaks(id)
    \/ handle_output_recv

SpecFanout == InitFanout /\ [][NextFanout]_vars

\* The same with sockets that may also stop taking writes for a while.
NextStall ==
    \/ start(MaxHeight)
    \/ handle_input_connect
    \/ \E line \in TypedLines : input.n < MaxTyped /\ handle_input_read(line)
    \/ handle_input_send
    \/ handle_input_write
    \/ \E id \in Uuid : PeerBreaks(id)
    \/ \E id \in Uuid : PeerStalls(id)
    \/ \E id \in Uuid : PeerDrains(id)
    \/ handle_output_recv

SpecStall == InitFanout /\ [][NextStall]_vars

\* The chat listener and the peers that connect to it; nothing is typed.
NextListen ==
    \/ start(MaxHeight)
    \/ handle_input_connect
    \/ \E d \in ChatConn : ChatConnect(d)
    \/ \E d \in ChatConn : ChatSendMessage(d)
    \/ \E d \in ChatConn, w \in ChatGarbage : ChatSendGarbage(d, w)
    \/ \E d \in ChatConn : ChatClose(d)
    \/ listen_accept
    \/ listen_read
    \/ listen_send
    \/ handle_output_recv

SpecListen == Init /\ [][NextListen]_vars

\* handle_output is a task of its own that does nothing but wait in recv
\* and repaint: a message in the channel is received.
SpecChatFair == SpecChat /\ WF_vars(handle_output_recv)

\* ------------------------------------------------------------------ claims
\* handle_ping returns on connection c after its Pong was written.
HandshakeDone(c) == pc[c] = "update" /\ pc'[c] = "read"
\* `handle` took a chunk off connection c that is not a well-formed Ping.
SkippedPayload(c) ==
    /\ pc[c] = "read" /\ pc'[c] # "ping"
    /\ inq'[c] # inq[c] /\ Len(inq'[c]) <= Len(inq[c])
\* handle_ping returns on connection c because the Pong write failed.
PongFailed(c) == pc[c] = "ping" /\ pc'[c] = "read"
\* `handle` on connection c reads a well-formed Ping.
PingRead(c) == pc[c] = "read" /\ pc'[c] = "ping"

\* C1: when handle_ping returns for a Ping whose Pong write succeeded,
\* exactly one Pong was written for that Ping, it carries the server's own
\* id and chat address, and the server's directory then holds a record keyed
\* by the Ping's peer_id that is online with last_seen no earlier than the
\* time the Ping was read.
C1_Handshake ==
    [][\A c \in Conn : HandshakeDone(c) =>
          LET id == req[c].peer_id IN
          /\ Len(sent[c]) = 1
          /\ from_slice(sent[c][1]) = Ok(Pong(peer_info.id, peer_info.chat_addr))
          /\ HasPeer(peer_info'.peers, id)
          /\ peer_info'.peers[id].status = "online"
          /\ peer_info'.peers[id].last_seen # None
          /\ peer_info'.peers[id].last_seen[1] >= recvAt[c]]_vars

\* A handshake has completed for a Ping read after the clock had advanced,
\* and every handler is back at its read.
C1_Witness ==
    /\ srv = "up"
    /\ \A c \in Conn : pc[c] = "read"
    /\ \E id \in DOMAIN peer_info.peers :
          peer_info.peers[id].last_seen = Some(MaxClock)

\* C5: a step in which `handle` takes a payload that is not a well-formed
\* Ping (a truncated or malformed chunk, or a request of another variant)
\* leaves the server running, the connection open and its handler at its
\* read, the directory and its file as they were, writes no Pong, and
\* disturbs no other connection's handler; and every handshake that
\* completes after a payload was skipped, on that connection or on another,
\* answers with the server's Pong and leaves the sender's record online.
C5_GarbageSkipped ==
    [][\A c \in Conn :
          /\ SkippedPayload(c) =>
                /\ srv' = "up"
                /\ pc'[c] = "read"
                /\ peer_info' = peer_info
                /\ file' = file
                /\ sent' = sent
                /\ lock' = lock
                /\ remote' = remote
                /\ \A d \in Conn \ {c} : pc'[d] = pc[d] /\ req'[d] = req[d]
          /\ (hs.how \in {"skipped", "same"} /\ HandshakeDone(c)) =>
                /\ sent[c] = <<to_vec(Pong(peer_info.id, peer_info.chat_addr))>>
                /\ HasPeer(peer_info'.peers, req[c].peer_id)
                /\ peer_info'.peers[req[c].peer_id].status = "online"]_vars

\* A connection skipped a payload and later completed a handshake, while a
\* handshake is under way on another connection.
C5_Witness ==
    /\ hs.how = "same"
    /\ HasPeer(peer_info.peers, "idC")
    /\ \E d \in Conn \ {hs.conn} : pc[d] = "update"

\* C9: from the read of a Ping to the return of handle_ping on a failed
\* Pong write, the handler changes neither the server's directory nor the
\* directory file.
C9_PongFailureNoChange ==
    [][\A c \in Conn : (PongFailed(c) \/ PingRead(c)) =>
          peer_info' = peer_info /\ file' = file]_vars

\* A Pong write has failed.
C9_Witness == hs.how = "failed"

\* C10 as stated: after every successful server handshake the record has
\* the addresses of that Ping, on first contact and when a record existed
\* under other addresses, and the document the handshake saved holds the
\* same record.
C10_Original ==
    [][\A c \in Conn : HandshakeDone(c) =>
          LET id == req[c].peer_id IN
          /\ peer_info'.peers[id].addr = req[c].peer_addr
          /\ peer_info'.peers[id].chat_addr = req[c].peer_chat_addr
          /\ file' = file \/ file'[peer_info.path].peers[id] = peer_info'.peers[id]]_vars

\* C10 amended: after a successful server handshake the record keyed by the
\* Ping's peer_id has the Ping's addresses on first contact and keeps the
\* addresses it had when a record already existed; and the document the
\* handshake saved equals the directory in memory (a failed save, which is
\* only logged, saves none).
C10_Amended ==
    [][\A c \in Conn : HandshakeDone(c) =>
          LET id == req[c].peer_id
              old == peer_info.peers
              new == peer_info'.peers[id] IN
          /\ ~HasPeer(old, id) =>
                new.addr = req[c].peer_addr /\ new.chat_addr = req[c].peer_chat_addr
          /\ HasPeer(old, id) =>
                new.addr = old[id].addr /\ new.chat_addr = old[id].chat_addr
          /\ file' = file \/ file'[peer_info.path] = peer_info']_vars

\* The Pong was written for a Ping whose sender already has a record under
\* other addresses.
C10_Witness ==
    \E c \in Conn :
       /\ pc[c] = "update"
       /\ HasPeer(peer_info.peers, req[c].peer_id)
       /\ peer_info.peers[req[c].peer_id].addr # req[c].peer_addr
       /\ peer_info.peers[req[c].peer_id].chat_addr # req[c].peer_chat_addr

\* The peers map right after the i-th call.
AfterCall(i) == IF i = Len(calls) THEN dir ELSE calls[i + 1].before

\* C3: a call of peer_or_insert with an id the map lacks adds exactly the
\* record Peer::new makes from the call's defaults (offline, never seen) and
\* returns it; a call with an id the map holds returns the record it holds
\* and changes nothing; either way every other record is as it was; so after
\* two calls with one unseen id and different defaults the map holds one
\* record for the id, made from the first call's defaults.
C3_PeerOrInsert ==
    \A i \in 1..Len(calls) :
       LET k == calls[i]
           fresh == PeerNew(k.id, k.default_addr, k.default_chat_addr)
           after == AfterCall(i) IN
       /\ DOMAIN after = DOMAIN k.before \cup {k.id}
       /\ \A o \in DOMAIN k.before : after[o] = k.before[o]
       /\ after[k.id] = k.ret
       /\ k.ret = IF HasPeer(k.before, k.id) THEN k.before[k.id] ELSE fresh
       /\ \A j \in (i + 1)..Len(calls) :
             (calls[j].id = k.id /\ ~HasPeer(k.before, k.id)) =>
                /\ AfterCall(j)[k.id] = fresh
                /\ fresh.status = "offline" /\ fresh.last_seen = None

\* Two calls in a row with one unseen id and different defaults, on a map
\* that holds other records.
C3_Witness ==
    /\ Len(calls) = 2
    /\ calls[1].before # <<>>
    /\ ~HasPeer(calls[1].before, calls[1].id)
    /\ calls[2].id = calls[1].id
    /\ calls[2].default_addr # calls[1].default_addr
    /\ calls[2].default_chat_addr # calls[1].default_chat_addr

\* C4: the channel never holds more than 32 messages; while it holds 32, a
\* task waiting in send (handle_input or listen) stays where it is and the
\* channel only loses its oldest message; and the messages the channel
\* accepted are, in the order it accepted them, those handle_output has
\* received followed by those still in the channel: none dropped, none
\* twice, none out of order; and the channel is empty again and again, so
\* every message it accepted is received.
C4_RelayQueue ==
    /\ [](/\ Len(chan) <= QueueCap
          /\ pubd = got \o chan)
    /\ []<>(chan = <<>>)
    /\ [][/\ Len(chan) = QueueCap =>
                /\ input.pc = "send" => input' = input
                /\ listener.pc = "send" => listener' = listener
                /\ chan' = chan \/ (chan' = Tail(chan) /\ got' = Append(got, Head(chan)))
          /\ got' # got => got' = Append(got, Head(chan)) /\ chan' = Tail(chan)]_vars

\* The channel is full with both producers waiting in send.
C4_Witness ==
    /\ Len(chan) = QueueCap
    /\ input.pc = "send" /\ listener.pc = "send"

\* The records of a peers map are all online, and are exactly `ids`.
OnlineExactly(peers, ids) ==
    /\ DOMAIN peers = ids
    /\ \A id \in ids : peers[id].id = id /\ peers[id].status = "online"

\* `connect` of B returned after its save, and handle_ping for its Ping has
\* returned in the server of A.
ExchangeComplete ==
    /\ cl.pc = "done" /\ cl.node = "B" /\ cl.conn # 0
    /\ srv = "up" /\ pc[cl.conn] = "read"

\* C2: B and A start with empty peer maps; once `connect` of B against the
\* server of A has returned after saving and handle_ping has returned, the
\* directory of B holds one record, A's id, online, in memory and in its
\* file, and the directory of A holds one record, B's id, online.
C2_EndToEnd ==
    ExchangeComplete =>
       /\ OnlineExactly(cl.info.peers, {NodeId("A")})
       /\ OnlineExactly(file[ConfPath("B")].peers, {NodeId("A")})
       /\ OnlineExactly(peer_info.peers, {NodeId("B")})

\* The exchange has completed, the Ping having been read at clock 1.
C2_Witness ==
    /\ ExchangeComplete
    /\ HasPeer(peer_info.peers, NodeId("B"))
    /\ peer_info.peers[NodeId("B")].last_seen = Some(MaxClock)

\* C6 as stated: no directory, in the memory of a process or in a file, has
\* its own id among the keys of its peers map.
C6_LocalIdNeverPeer ==
    /\ ~HasPeer(peer_info.peers, peer_info.id)
    /\ ~HasPeer(cl.info.peers, cl.info.id)
    /\ \A p \in Path : ~HasPeer(file[p].peers, file[p].id)

\* The directories in memory (the server's, the running client's) and on
\* file.
Directories ==
    {peer_info.peers, cl.info.peers} \cup {file[p].peers : p \in Path}
\* Record id of map `old` is missing or offline, and online in map `new`.
BecomesOnline(old, new, id) ==
    /\ HasPeer(new, id) /\ new[id].status = "online"
    /\ ~HasPeer(old, id) \/ old[id].status # "online"
\* The client's read returns a Pong of peer id.
PongArrives(id) ==
    /\ cl.pc = "sent" /\ cl'.pc \in {"done", "exit"}
    /\ IF cl.conn = 0 THEN Ok(Pong(id, "cC")) \in EnvReplies
       ELSE rx # <<>> /\ from_slice(rx[1]) = Ok(Pong(id, ConfChatAddr("A")))

\* C7: in every directory every record is online exactly when it has a
\* last_seen; and a record of a process's directory becomes online only in
\* the step that ends a successful handshake with that peer (server: the
\* return of handle_ping after the Pong was written; client: the read of the
\* Pong), a record of a file only in the save of such a step.
C7_StatusWithLastSeen ==
    /\ [](\A d \in Directories : \A id \in DOMAIN d :
             d[id].status = "online" <=> d[id].last_seen # None)
    /\ [][\A id \in Uuid :
          /\ (srv = "up" /\ BecomesOnline(peer_info.peers, peer_info'.peers, id))
                => \E c \in Conn : HandshakeDone(c) /\ req[c].peer_id = id
          /\ (cl.pc # "idle" /\ BecomesOnline(cl.info.peers, cl'.info.peers, id))
                => PongArrives(id)
          /\ \A p \in Path : BecomesOnline(file[p].peers, file'[p].peers, id)
                => \/ \E c \in Conn : HandshakeDone(c) /\ peer_info.path = p
                   \/ \E i \in Uuid : PongArrives(i) /\ cl.info.path = p]_vars

\* Both the server and a client have records, made online at different
\* times.
C7_Witness ==
    /\ cl.pc = "done"
    /\ \E id \in DOMAIN cl.info.peers : cl.info.peers[id].last_seen = Some(0)
    /\ \E id \in DOMAIN peer_info.peers :
          peer_info.peers[id].last_seen = Some(MaxClock)

\* A record of map `old` is gone from map `new`, or was online and is not.
Demoted(old, new) ==
    \E id \in DOMAIN old :
       \/ ~HasPeer(new, id)
       \/ old[id].status = "online" /\ new[id].status # "online"

\* C8: while the server runs, and while a `connect` invocation runs, no step
\* removes a record from the process's directory or takes a record from
\* online to offline.
C8_RecordsMonotonic ==
    [][/\ (srv = "up" /\ srv' = "up") => ~Demoted(peer_info.peers, peer_info'.peers)
       /\ (cl.pc # "idle" /\ cl'.pc # "idle") =>
             ~Demoted(cl.info.peers, cl'.info.peers)]_vars

\* The server's directory holds two records, and a handshake with a peer it
\* already holds is about to update it.
C8_Witness ==
    \E c \in Conn :
       /\ pc[c] = "update"
       /\ Cardinality(DOMAIN peer_info.peers) = 2
       /\ HasPeer(peer_info.peers, req[c].peer_id)

\* The `connect` invocation ends on a failed dial, a failed Ping write, a
\* failed or undecodable read, or a reply that is not a Pong.
ClientAborts == cl.pc # "aborted" /\ cl'.pc = "aborted"

\* C11: the step in which `connect` ends on a failed dial, a failed Ping
\* write, a failed read (a zero-byte read and an undecodable reply included)
\* or a well-formed reply that is not a Pong leaves the directory file and
\* the invocation's peer map as they were and writes no request; and the
\* ended invocation does nothing more: no request is written and no file
\* changes until the command is run again.
C11_ClientFailureFatal ==
    [][/\ ClientAborts =>
             /\ file' = file
             /\ cl'.info = IF cl.pc = "idle" THEN load(file, ConfPath(cl'.node))
                           ELSE cl.info
             /\ inq' = inq
       /\ cl.pc = "aborted" =>
             /\ cl' = cl \/ cl' = ClientIdle
             /\ \A c \in Conn : Len(inq'[c]) <= Len(inq[c])
             /\ file'[cl.info.path] = file[cl.info.path]
                \/ \E c \in Conn : HandshakeDone(c)]_vars

\* An invocation whose directory already holds a record ended on a reply
\* from the server that it could not take for a Pong.
C11_Witness ==
    /\ cl.pc = "aborted" /\ cl.conn # 0
    /\ cl.info.peers # <<>>
    /\ file[cl.info.path] = cl.info

\* C12: a handshake holds the directory's mutex from its Pong write to its
\* return: at most one connection is between the two, and while one is, no
\* step writes another Pong, changes the directory or writes its file.  The
\* return adds the Ping's id to the directory and drops or changes no other
\* record, so the handshakes completed for distinct ids all have their record;
\* and the file, when the save wrote it, equals the directory at that moment.
C12_HandshakeAtomic ==
    /\ [](\A c, d \in Conn :
             /\ (pc[c] = "update" /\ pc[d] = "update") => c = d
             /\ pc[c] = "update" <=> lock = c)
    /\ [][\A c \in Conn :
          /\ (pc[c] = "update" /\ ~HandshakeDone(c) /\ srv' = "up") =>
                /\ pc'[c] = "update"
                /\ peer_info' = peer_info /\ file' = file /\ sent' = sent
          /\ HandshakeDone(c) =>
                /\ DOMAIN peer_info'.peers =
                      DOMAIN peer_info.peers \cup {req[c].peer_id}
                /\ \A o \in DOMAIN peer_info.peers \ {req[c].peer_id} :
                      peer_info'.peers[o] = peer_info.peers[o]
                /\ file' = file \/ file'[peer_info.path] = peer_info']_vars

\* One connection is between its Pong write and its return while another,
\* with a Ping of another peer, waits for the mutex; the directory already
\* holds a record.
C12_Witness ==
    \E c, d \in Conn :
       /\ pc[c] = "update" /\ pc[d] = "ping"
       /\ req[c].peer_id # req[d].peer_id
       /\ peer_info.peers # <<>>

\* A well-formed Message is the next payload of chat connection d.
MessagePending(d) ==
    /\ cinq[d] # <<>>
    /\ \E k \in 1..MaxFrames : Head(cinq[d]) = to_vec(Message("idC", <<k>>))

\* C13: every chat connection is a live producer.  While a well-formed
\* Message waits on an open connection, the listener is never held by
\* another connection that is open and silent: forwarding the Message does
\* not wait for that other connection to close or fail.
C13_EveryConnectionLive ==
    \A d \in ChatConn :
       (cremote[d] = "open" /\ MessagePending(d)) =>
          ~ /\ listener.pc = "read"
            /\ listener.conn # d
            /\ cremote[listener.conn] = "open"
            /\ cinq[listener.conn] = <<>>

Min(a, b) == IF a <= b THEN a ELSE b

\* C14: the renderer's history is bounded and ordered.  In a terminal of
\* H >= 2 rows, after n messages were received the history holds the lines
\* of the most recent min(n, H - 2) of them, newest first: never more than
\* H - 2 lines, and the line that went to make room was the oldest.
C14_HistoryBounded ==
    height >= 2 =>
       LET n == Len(got)
           k == Min(n, height - 2)
       IN  /\ Len(lines) = k
           /\ Len(lines) <= height - 2
           /\ \A i \in 1..k : lines[i] = FormatLine(got[n - i + 1])

\* A history of two lines in four rows after a third message: the first
\* message's line has gone.
C14_Witness ==
    /\ height = 4 /\ Len(got) > 2 /\ Len(lines) = 2
    /\ \E i \in 1..Len(got) : got[i].peer_id = "idC"

\* A character that is a hexadecimal digit, a group with a character that
\* is none, a group of n lowercase digits.
IsHex(ch) == to_digit(ch) # -1
NonHexGroup(g) == \E i \in 1..Len(g) : ~IsHex(g[i])
LowerGroup(g, n) ==
    Len(g) = n /\ \A i \in 1..n : \E v \in 1..16 : HexDigits[v] = g[i]

\* C15: identifier text round trip.  The text of a generated identifier is
\* five hyphen-separated groups of 8, 4, 4, 4 and 12 lowercase hexadecimal
\* digits, and parsing it gives the identifier back; parsing a text that
\* does not split into exactly five groups, or that has a group with a
\* character that is no hexadecimal digit, fails.
C15_TextRoundTrip ==
    LET groups == Split(conv.text, <<>>) IN
    /\ conv.stage \in {"text", "back"} =>
          /\ Len(groups) = 5
          /\ LowerGroup(groups[1], 8) /\ LowerGroup(groups[2], 4)
          /\ LowerGroup(groups[3], 4) /\ LowerGroup(groups[4], 4)
          /\ LowerGroup(groups[5], 12)
    /\ conv.stage = "back" => conv.res = Ok(conv.id)
    /\ conv.stage = "parsed" =>
          ((Len(groups) # 5 \/ \E k \in 1..Len(groups) : NonHexGroup(groups[k]))
              => ~conv.res.ok)

\* C16: the input task publishes only non-empty lines.  No Message with an
\* empty text - what a blank line and the end of input trim to - is
\* published to the relay queue or written to a peer socket.
C16_OnlyNonEmptyLines ==
    /\ \A i \in 1..Len(pubd) : pubd[i].text # <<>>
    /\ \A id \in DOMAIN out :
          \A i \in 1..Len(out[id].wrote) : out[id].wrote[i].text # <<>>

\* C17: a failed Pong write abandons the connection.  Once handle_ping has
\* returned on a connection because its Pong could not be written, the
\* handler of that connection takes no further request off it and writes
\* no further Pong to it.
C17_FailedPongAbandons ==
    [][\A c \in Conn :
          (hs.how = "failed" /\ hs.conn = c) =>
             /\ ~PingRead(c) /\ ~SkippedPayload(c)
             /\ Len(sent'[c]) <= Len(sent[c])]_vars

\* The handler task of connection c has ended (or was never spawned).
Terminated(c) == pc[c] \notin {"read", "ping", "update"}

\* C18: server connection loops end on unrecoverable I/O.  Once the remote
\* peer has closed a discovery connection, or the connection has failed, the
\* handler task of that connection eventually terminates.
C18_HandlerTerminates ==
    \A c \in Conn : (remote[c] = "gone") ~> Terminated(c)

\* C19: well-formed chat messages are not lost to framing.  Whenever the
\* listener's read takes bytes off a connection whose next payload is a
\* well-formed Message - alone, together with the frame behind it, or only
\* in part - that Message is the one forwarded next, nothing but its frame
\* has left the connection, and the connection keeps being read.
C19_NoFramingLoss ==
    [][\A d \in ChatConn :
          (listener.pc = "read" /\ listener.conn = d /\ MessagePending(d)
           /\ cinq'[d] # cinq[d]) =>
             /\ listener'.pc = "send" /\ listener'.conn = d
             /\ listener'.msg = from_slice(Head(cinq[d])).val
             /\ cinq'[d] = Tail(cinq[d])]_vars

\* The payloads of the first k messages of a history.
Payloads(history, k) == [i \in 1..k |-> to_vec(history[i])]

\* Position of a peer in the order the streams are written in.
StreamIndex(id) == CHOOSE j \in 1..Len(streams) : streams[j] = id

\* C20: the fan-out tolerates a write failure on one peer socket.  Every
\* peer socket that is still open has been written every local line so far
\* (the current one once its turn has come), whatever happened to the other
\* sockets; a write that fails leaves the relay queue and the published
\* history as they are and moves on to the next socket or, after the last
\* one, to the next line.
C20_FanoutTolerant ==
    /\ [](\A id \in DOMAIN out :
             out[id].state = "open" =>
                out[id].wrote =
                   Payloads(pubd, IF input.pc = "fanout" /\ StreamIndex(id) >= input.i
                                  THEN Len(pubd) - 1 ELSE Len(pubd)))
    /\ [][(input.pc = "fanout" /\ input' # input
           /\ out[streams[input.i]].state = "broken") =>
             /\ chan' = chan /\ pubd' = pubd /\ out' = out
             /\ IF input.i = Len(streams)
                THEN input'.pc = "read"
                ELSE input'.pc = "fanout" /\ input'.i = input.i + 1]_vars

\* Two lines were published; the first socket was broken before the first
\* of them and the socket after it holds both.
C20_Witness ==
    /\ Len(streams) = 2 /\ Len(pubd) = 2 /\ input.pc = "read"
    /\ out[streams[1]].state = "broken" /\ out[streams[1]].wrote = <<>>
    /\ out[streams[2]].state = "open" /\ Len(out[streams[2]].wrote) = 2

\* The input task is in a write to a peer socket that does not complete.
WriteBlocked ==
    input.pc = "fanout" /\ out[streams[input.i]].state = "stalled"

\* C21: the sequential fan-out stalls behind a blocked peer.  While the
\* write of a line to one peer socket does not complete, the relay queue
\* has been sent the line, every peer earlier in the order whose socket has
\* not failed has been written it, no peer later in the order has, and the
\* input task neither reads another line nor writes to any socket.
C21_StallsBehindBlockedPeer ==
    /\ [](WriteBlocked =>
             /\ pubd # <<>> /\ pubd[Len(pubd)] = input.msg
             /\ \A j \in 1..Len(streams) :
                   /\ (j < input.i /\ out[streams[j]].state # "broken") =>
                         out[streams[j]].wrote = Payloads(pubd, Len(pubd))
                   /\ j >= input.i =>
                         Len(out[streams[j]].wrote) < Len(pubd))
    /\ [][WriteBlocked =>
             /\ input' = input /\ pubd' = pubd
             /\ \A id \in DOMAIN out : out'[id].wrote = out[id].wrote]_vars

\* The second line is held up at the first socket; the socket behind it is
\* open and holds the first line only.
C21_Witness ==
    /\ WriteBlocked /\ input.i = 1 /\ Len(streams) = 2 /\ Len(pubd) = 2
    /\ out[streams[2]].state = "open"
    /\ out[streams[2]].wrote = Payloads(pubd, 1)

\* C22: the chat listener isolates decode failures.  A read on an accepted
\* connection either takes one well-formed Message, which is forwarded, or
\* ends the loop of that connection and nothing else: the listener is back
\* at accept, the relay queue and the other connections are as they were.
\* From accept it takes the next connection, and what it read there goes
\* to the queue behind what the queue already holds.
C22_DecodeFailureIsolated ==
    /\ [](input.pc \notin {"off", "exit"} =>
             listener.pc \in {"accept", "read", "send"})
    /\ [][(listener.pc = "read" /\ listener' # listener) =>
             LET d == listener.conn IN
             \/ /\ MessagePending(d)
                /\ listener' = [listener EXCEPT !.pc = "send",
                                   !.msg = from_slice(Head(cinq[d])).val]
                /\ cinq'[d] = Tail(cinq[d])
             \/ /\ listener' = [listener EXCEPT !.pc = "accept"]
                /\ chan' = chan /\ pubd' = pubd /\ got' = got
                /\ cremote' = cremote
                /\ \A e \in ChatConn \ {d} : cinq'[e] = cinq[e]]_vars
    /\ [][(listener.pc = "accept" /\ listener' # listener) =>
             /\ cremote[listener.conn + 1] # "none"
             /\ listener' = [listener EXCEPT !.pc = "read",
                                             !.conn = listener.conn + 1]]_vars
    /\ [][(listener.pc = "send" /\ listener' # listener) =>
             /\ chan' = Append(chan, listener.msg)
             /\ listener'.pc = "read" /\ listener'.conn = listener.conn]_vars

\* The read loop of the first connection has ended on a payload that is no
\* Message, and a Message read from the second connection is on its way to
\* the queue.
C22_Witness ==
    /\ listener.conn = 2 /\ listener.pc = "send"
    /\ listener.msg.variant = "Message"
    /\ cremote[1] = "open" /\ cinq[1] = <<>>

\* The rows that show a given history line.
RowsOf(line) == {row \in DOMAIN screen : screen[row] = LineCell(line)}

\* C23: renderer row placement.  After every repaint in a terminal of H
\* rows each history line is on a row of its own strictly between the
\* header row 1 and the prompt row H, the most recent line on the row
\* nearest the header and each older line farther from it.
C23_RowPlacement ==
    height >= 2 =>
       /\ \A i \in 1..Len(lines) :
             \E row \in RowsOf(lines[i]) :
                /\ 1 < row /\ row < height
                /\ RowsOf(lines[i]) = {row}
       /\ \A i, j \in 1..Len(lines) :
             i < j => \A r \in RowsOf(lines[i]), q \in RowsOf(lines[j]) : r < q

\* C24: no lost update on the persisted directory.  When the server and a
\* `connect` run of the same installation share one file, a save by either
\* keeps every record the file holds: a record once in the file is in the
\* file after every later save.
C24_NoLostUpdate ==
    [][\A p \in Path :
          \A id \in DOMAIN file[p].peers : id \in DOMAIN file'[p].peers]_vars

====
